---------------------------- MODULE Spec2Model ----------------------------
(***************************************************************************)
(* A model of the IP information worker (src/src/index.ts): the address    *)
(* classifier processIPAddress, the field projector getRequestedFields     *)
(* and the four routes of the Hono application with its notFound and       *)
(* onError handlers.                                                       *)
(*                                                                         *)
(* Strings the code inspects character by character (the connecting IP,    *)
(* the fields parameter, property names) are sequences of one-character    *)
(* strings.  A JavaScript object is a function from its own property       *)
(* names to tagged values.                                                 *)
(***************************************************************************)
EXTENDS Naturals, Sequences, FiniteSets, TLC

VARIABLES
    ip,               \* classifier run: the argument of processIPAddress
    ipData,           \* classifier run: its return value
    fieldsParam,      \* projector run: first argument of getRequestedFields
    availableData,    \* projector run: second argument of getRequestedFields
    requestedFields,  \* projector run: the parsed names (selective branch)
    result,           \* projector run: the returned object
    at,               \* classifier/projector run: "call" before, "return" after
    req,              \* request id -> the request as the platform hands it in
    pc,               \* request id -> where its handling stands
    locals,           \* request id -> the const bindings of app.get('/')
    thrown,           \* request id -> the exception its handler raised, if any
    resp,             \* request id -> the responses sent for it, in order
    console           \* what console.error has logged, in order

vars == <<ip, ipData, fieldsParam, availableData, requestedFields, result, at,
          req, pc, locals, thrown, resp, console>>

harnessVars == <<ip, ipData, fieldsParam, availableData, requestedFields, result, at>>
handlerVars == <<req, pc, locals, thrown, resp, console>>

---------------------------------------------------------------------------
(* JavaScript values *)

Undefined == [t |-> "undefined"]
Null      == [t |-> "null"]
Str(s)    == [t |-> "string", s |-> s]
Num(n)    == [t |-> "number", n |-> n]

Min(S) == CHOOSE x \in S : \A y \in S : x <= y
Max(S) == CHOOSE x \in S : \A y \in S : x >= y
Range(f) == {f[i] : i \in DOMAIN f}

\* An object literal {}: no own properties.
EmptyObj == <<>>

\* o.k / o[k] for a name Object.prototype does not define: the own value,
\* or undefined.
Get(o, k) == IF k \in DOMAIN o THEN o[k] ELSE Undefined

\* { ...a, ...b }: b's own properties win.
Spread(a, b) == [k \in DOMAIN a \cup DOMAIN b |-> IF k \in DOMAIN b THEN b[k] ELSE a[k]]

\* x || y on a header value or query value.
OrElse(x, y) == IF x = Undefined \/ x = Str(<<>>) THEN y ELSE x

---------------------------------------------------------------------------
(* Address classifier, index.ts lines 5-28 *)

Digits == {"0", "1", "2", "3", "4", "5", "6", "7", "8", "9"}

\* The quantifiers of /^(\d{1,3}\.){3}\d{1,3}$/
MinDigits    == 1
MaxDigits    == 3
DottedGroups == 3

\* \d{n} at position i
DigitRun(s, i, n) == i + n - 1 <= Len(s) /\ \A j \in i..(i + n - 1) : s[j] \in Digits

\* (\d{1,3}\.){k}\d{1,3}$ at position i
RECURSIVE MatchFrom(_, _, _)
MatchFrom(s, i, k) ==
    \E n \in MinDigits..MaxDigits :
        /\ DigitRun(s, i, n)
        /\ IF k = 0
           THEN i + n - 1 = Len(s)
           ELSE /\ i + n <= Len(s)
                /\ s[i + n] = "."
                /\ MatchFrom(s, i + n + 1, k - 1)

\* The pattern without its closing $ : a matching prefix is enough.
isIPv4_Unanchored(s) == \E n \in 0..Len(s) : MatchFrom(SubSeq(s, 1, n), 1, DottedGroups)

isIPv4(s) == MatchFrom(s, 1, DottedGroups)

K_ip        == <<"i","p">>
K_ipv4      == <<"i","p","v","4">>
K_ipv6      == <<"i","p","v","6">>
K_ipVersion == <<"i","p","V","e","r","s","i","o","n">>

processIPAddress(s) ==
    IF isIPv4(s)
    THEN (K_ip :> Str(s)) @@ (K_ipv4 :> Str(s)) @@ (K_ipv6 :> Null) @@ (K_ipVersion :> Num(4))
    ELSE (K_ip :> Str(s)) @@ (K_ipv4 :> Null) @@ (K_ipv6 :> Str(s)) @@ (K_ipVersion :> Num(6))

---------------------------------------------------------------------------
(* Field projector, index.ts lines 30-61 *)

K_country        == <<"c","o","u","n","t","r","y">>
K_region         == <<"r","e","g","i","o","n">>
K_asn            == <<"a","s","n">>
K_asOrganization == <<"a","s","O","r","g","a","n","i","z","a","t","i","o","n">>
K_userAgent      == <<"u","s","e","r","A","g","e","n","t">>

\* fieldsParam === undefined in place of !fieldsParam
Falsy_UndefinedOnly(v) == v = Undefined

\* A parameter that names no field taken for a missing one.
Falsy_OrBlank(v) == v = Undefined \/ \A i \in 1..Len(v.s) : v.s[i] \in {",", " ", "\t", "\n", "\r"}

\* !fieldsParam : undefined and the empty string are falsy.
Falsy(v) == v = Undefined \/ v = Str(<<>>)

DefaultKeys ==
    {K_ip, K_ipv4, K_ipv6, K_ipVersion, K_country, K_region, K_asn, K_asOrganization,
     K_userAgent}

\* The default branch written like the selective one: missing keys are left out.
DefaultFields_OmitMissing(o) == [k \in DOMAIN o \cap DefaultKeys |-> o[k]]

\* The object literal of the default branch, lines 33-43.
DefaultFields(o) ==
       (K_ip             :> Get(o, K_ip))
    @@ (K_ipv4           :> Get(o, K_ipv4))
    @@ (K_ipv6           :> Get(o, K_ipv6))
    @@ (K_ipVersion      :> Get(o, K_ipVersion))
    @@ (K_country        :> Get(o, K_country))
    @@ (K_region         :> Get(o, K_region))
    @@ (K_asn            :> Get(o, K_asn))
    @@ (K_asOrganization :> Get(o, K_asOrganization))
    @@ (K_userAgent      :> Get(o, K_userAgent))

\* s.split(',') : the pieces between the commas, empty ones included.
RECURSIVE Split(_)
Split(s) ==
    IF \A i \in 1..Len(s) : s[i] /= ","
    THEN <<s>>
    ELSE LET i == CHOOSE j \in 1..Len(s) :
                      s[j] = "," /\ \A h \in 1..(j - 1) : s[h] /= ","
         IN  <<SubSeq(s, 1, i - 1)>> \o Split(SubSeq(s, i + 1, Len(s)))

\* The white space String.prototype.trim removes, as far as the inputs use it.
WhiteSpace == {" ", "\t", "\n", "\r"}

RECURSIVE TrimStart(_)
TrimStart(s) ==
    IF s /= <<>> /\ Head(s) \in WhiteSpace THEN TrimStart(Tail(s)) ELSE s

RECURSIVE TrimEnd(_)
TrimEnd(s) ==
    IF s /= <<>> /\ s[Len(s)] \in WhiteSpace
    THEN TrimEnd(SubSeq(s, 1, Len(s) - 1))
    ELSE s

\* trimStart() in place of trim()
Trim_StartOnly(s) == TrimStart(s)

\* field.trim()
Trim(s) == TrimEnd(TrimStart(s))

\* .map((field) => field.trim())
MapTrim(ps) == [i \in 1..Len(ps) |-> Trim(ps[i])]

\* (field) => field.length > 0
NonEmpty(s) == Len(s) > 0

\* .filter((field) => field.length > 0)
FilterNonEmpty(ps) == SelectSeq(ps, NonEmpty)

\* const requestedFields = fieldsParam.split(',').map(...).filter(...), lines 47-50
ParseFields(s) == FilterNonEmpty(MapTrim(Split(s)))

\* No own-property test: every requested name is copied.
HasOwnProperty_Always(o, k) == TRUE

\* availableData.hasOwnProperty(field)
HasOwnProperty(o, k) == k \in DOMAIN o

\* for (const field of requestedFields) { if (...) result[field] = ... }, lines 53-58
RECURSIVE ProjectLoop(_, _, _)
ProjectLoop(fields, o, acc) ==
    IF fields = <<>>
    THEN acc
    ELSE LET field == Head(fields)
             next  == IF HasOwnProperty(o, field)
                      THEN Spread(acc, field :> Get(o, field))
                      ELSE acc
         IN  ProjectLoop(Tail(fields), o, next)

getRequestedFields(fp, o) ==
    IF Falsy(fp)
    THEN DefaultFields(o)
    ELSE ProjectLoop(ParseFields(fp.s), o, EmptyObj)

---------------------------------------------------------------------------
(* The application, index.ts lines 243-312 *)

K_docs_url == <<"d","o","c","s","_","u","r","l">>

\* `https://${DOMAIN}/docs` : an undefined DOMAIN prints as "undefined".
TemplateString(v) == IF v = Undefined THEN <<"u","n","d","e","f","i","n","e","d">> ELSE v.s

DocsUrl(domain) == Str(<<"h","t","t","p","s",":","/","/">> \o TemplateString(domain) \o <<"/","d","o","c","s">>)

\* JSON.stringify, as c.json applies it to an object of primitives: a property
\* whose value is undefined is left out, null is kept.
JSONstringify(o) == [k \in {x \in DOMAIN o : o[x] /= Undefined} |-> o[k]]

\* c.req.raw.cf || {}
CfData(cf) == IF cf.defined THEN cf.props ELSE EmptyObj

\* { ...ipData, ...cfData, userAgent: userAgent }, lines 265-269
AvailableData(ipd, cfd, ua) == Spread(Spread(ipd, cfd), K_userAgent :> ua)

\* docs_url written first, so that a projected docs_url overwrites it.
ResponseBody_DocsFirst(responseData, domain) ==
    Spread(K_docs_url :> DocsUrl(domain), responseData)

\* { ...responseData, docs_url: `https://${DOMAIN}/docs` }, lines 285-288
ResponseBody(responseData, domain) ==
    Spread(responseData, K_docs_url :> DocsUrl(domain))

CorsHeaders ==
       ("Access-Control-Allow-Credentials" :> "true")
    @@ ("Access-Control-Allow-Methods"     :> "GET, OPTIONS")
    @@ ("Access-Control-Allow-Headers"     :> "office")

\* The c.header calls of the root route, lines 276-283
RootHeaders ==
       ("X-XSS-Protection"       :> "1; mode=block")
    @@ ("X-Content-Type-Options" :> "nosniff")
    @@ ("X-Frame-Options"        :> "DENY")
    @@ ("Referrer-Policy"        :> "unsafe-url")
    @@ ("Feature-Policy"         :> "none")
    @@ CorsHeaders

DocsHeaders == ("X-Content-Type-Options" :> "nosniff")

NoHeaders == [h \in {} |-> ""]

NoBody        == [k |-> "none"]
TextBody(s)   == [k |-> "text", s |-> s]
JsonBody(o)   == [k |-> "json", o |-> o]

Response(status, headers, body) ==
    [status |-> status, headers |-> headers, body |-> body]

\* The top-level properties of getDocumentation(), lines 63-241; the nested
\* tables are constant data and are kept opaque.
Nested(name) == [t |-> "object", of |-> name]

getDocumentation ==
       (<<"t","i","t","l","e">>           :> Str(<<"I","P"," ","I","n","f","o","r","m","a","t","i","o","n"," ","A","P","I"," ","D","o","c","u","m","e","n","t","a","t","i","o","n">>))
    @@ (<<"v","e","r","s","i","o","n">>         :> Str(<<"1",".","0",".","0">>))
    @@ (<<"d","e","s","c","r","i","p","t","i","o","n">>     :> Nested("description"))
    @@ (<<"e","n","d","p","o","i","n","t","s">>       :> Nested("endpoints"))
    @@ (<<"a","v","a","i","l","a","b","l","e","F","i","e","l","d","s">> :> Nested("availableFields"))
    @@ (<<"e","x","a","m","p","l","e","s">>        :> Nested("examples"))
    @@ (<<"n","o","t","e","s">>           :> Nested("notes"))

\* app.options('/') in place of app.options('*')
Route_OptionsRootOnly(q) ==
    IF q.method = "GET" /\ q.path = "/docs" THEN "docs"
    ELSE IF q.method = "GET" /\ q.path = "/" THEN "root"
    ELSE IF q.method = "OPTIONS" /\ q.path = "/" THEN "options"
    ELSE "notFound"

\* The route the router picks: app.get('/docs'), app.get('/'),
\* app.options('*'), else the notFound handler.
Route(q) ==
    IF q.method = "GET" /\ q.path = "/docs" THEN "docs"
    ELSE IF q.method = "GET" /\ q.path = "/" THEN "root"
    ELSE IF q.method = "OPTIONS" THEN "options"
    ELSE "notFound"

\* A context kept in module scope: every invocation sees the first one.
Ctx_Shared(r) == req[Min(DOMAIN req)]

\* The context c of request r: each invocation gets its own.
Ctx(r) == req[r]

\* const { DOMAIN } = c.env throws when the worker was given no bindings.
EnvError == [name |-> "TypeError", message |-> <<"C","a","n","n","o","t"," ","d","e","s","t","r","u","c","t","u","r","e"," ","p","r","o","p","e","r","t","y"," ","'","D","O","M","A","I","N","'">>]
NoError  == [name |-> "none"]

\* The const bindings of the root route, lines 252-273.
RootLocals(q) ==
    LET address  == OrElse(q.ipHeader, Str(<<"n","o"," ","I","P">>)).s
        ipd      == processIPAddress(address)
        cfd      == CfData(q.cf)
        ua       == OrElse(q.uaHeader, Null)
        avail    == AvailableData(ipd, cfd, ua)
        fp       == q.fields
    IN  [DOMAIN_         |-> q.env.DOMAIN_,
         ip              |-> address,
         ipData          |-> ipd,
         cfData          |-> cfd,
         userAgent       |-> ua,
         availableData   |-> avail,
         fieldsParam     |-> fp,
         requestedFields |-> IF Falsy(fp) THEN <<>> ELSE ParseFields(fp.s),
         responseData    |-> getRequestedFields(fp, avail)]

NoLocals ==
    [DOMAIN_ |-> Undefined, ip |-> <<>>, ipData |-> EmptyObj, cfData |-> EmptyObj,
     userAgent |-> Undefined, availableData |-> EmptyObj, fieldsParam |-> Undefined,
     requestedFields |-> <<>>, responseData |-> EmptyObj]

\* return c.json({...}) of the root route, with the headers set before it.
RootResponse(l) ==
    Response(200, RootHeaders, JsonBody(JSONstringify(ResponseBody(l.responseData, l.DOMAIN_))))

\* app.get('/docs'), lines 244-248
DocsResponse == Response(200, DocsHeaders, JsonBody(JSONstringify(getDocumentation)))

\* app.options('*'), lines 292-301
OptionsResponse == Response(204, CorsHeaders, NoBody)

\* app.notFound, lines 304-306
NotFoundResponse == Response(404, NoHeaders, TextBody(<<"N","o","t"," ","F","o","u","n","d">>))

\* c.text(err.message, 500)
ErrorResponse_Echo(err) == Response(500, NoHeaders, TextBody(err.message))

\* app.onError, lines 309-312
ErrorResponse(err) == Response(500, NoHeaders, TextBody(<<"F","a","i","l","e","d"," ","t","o"," ","r","e","t","r","i","e","v","e"," ","i","p">>))

Send(r, response) == resp' = [resp EXCEPT ![r] = Append(@, response)]

HandleRootOk(r) ==
    /\ pc[r] = "received"
    /\ Route(Ctx(r)) = "root"
    /\ Ctx(r).env.defined
    /\ locals' = [locals EXCEPT ![r] = RootLocals(Ctx(r))]
    /\ Send(r, RootResponse(locals'[r]))
    /\ pc' = [pc EXCEPT ![r] = "done"]
    /\ UNCHANGED <<req, thrown, console, harnessVars>>

HandleRootThrow(r) ==
    /\ pc[r] = "received"
    /\ Route(Ctx(r)) = "root"
    /\ ~Ctx(r).env.defined
    /\ thrown' = [thrown EXCEPT ![r] = EnvError]
    /\ pc' = [pc EXCEPT ![r] = "raised"]
    /\ UNCHANGED <<req, locals, resp, console, harnessVars>>

HandleDocs(r) ==
    /\ pc[r] = "received"
    /\ Route(Ctx(r)) = "docs"
    /\ Send(r, DocsResponse)
    /\ pc' = [pc EXCEPT ![r] = "done"]
    /\ UNCHANGED <<req, locals, thrown, console, harnessVars>>

HandleOptions(r) ==
    /\ pc[r] = "received"
    /\ Route(Ctx(r)) = "options"
    /\ Send(r, OptionsResponse)
    /\ pc' = [pc EXCEPT ![r] = "done"]
    /\ UNCHANGED <<req, locals, thrown, console, harnessVars>>

NotFound(r) ==
    /\ pc[r] = "received"
    /\ Route(Ctx(r)) = "notFound"
    /\ Send(r, NotFoundResponse)
    /\ pc' = [pc EXCEPT ![r] = "done"]
    /\ UNCHANGED <<req, locals, thrown, console, harnessVars>>

OnError(r) ==
    /\ pc[r] = "raised"
    /\ console' = Append(console, thrown[r])
    /\ Send(r, ErrorResponse(thrown[r]))
    /\ pc' = [pc EXCEPT ![r] = "done"]
    /\ UNCHANGED <<req, locals, thrown, harnessVars>>

---------------------------------------------------------------------------
(* Inputs *)

MaxIpLen  == 9   \* longest enumerated connecting-IP string
MaxPieces == 4   \* most vocabulary pieces in an enumerated fields string
MaxSepLen == 4   \* longest enumerated separators-only fields string
NReq      == 2   \* requests in flight together

Strings(alphabet, n) == UNION {[1..k -> alphabet] : k \in 0..n}

RECURSIVE Flatten(_)
Flatten(ps) == IF ps = <<>> THEN <<>> ELSE Head(ps) \o Flatten(Tail(ps))

Restrict(o, keys) == [k \in DOMAIN o \cap keys |-> o[k]]

IPv4Example == <<"2","0","3",".","0",".","1","1","3",".","1">>
IPv6Example == <<"2","0","0","1",":","0","d","b","8",":","8","5","a","3",":","0","0","0","0",":","0","0","0","0",":","8","a","2","e",":","0","3","7","0",":","7","3","3","4">>

IpChars == {"9", ".", ":"}

ExampleIps ==
    {IPv4Example, IPv6Example, <<"9","9","9",".","9","9","9",".","9","9","9",".","9","9","9">>, <<"n","o"," ","I","P">>, <<"1","2","3","4",".","1",".","1",".","1">>,
     <<"1",".","1",".","1",".","1","2","3","4">>, <<"1",".","1",".","1">>, <<"1",".","1",".","1",".","1",".","1">>, <<"1",".","2",".","3",".","4"," ">>, <<" ","1",".","2",".","3",".","4">>, <<"1",".","2",".","3",".","a">>,
     <<"2","5","5",".","2","5","5",".","2","5","5",".","2","5","5">>, <<"1",".",".","1",".","1">>, <<":",":","f","f","f","f",":","1",".","2",".","3",".","4">>, <<"1",".","2",".","3",".","4","\n">>}

IpInputs == Strings(IpChars, MaxIpLen) \cup ExampleIps

K_city     == <<"c","i","t","y">>
K_timezone == <<"t","i","m","e","z","o","n","e">>

Vocabulary == {K_ip, K_city, K_country, <<",">>, <<" ">>}

ExampleFields ==
    {<<"i","p",","," ","c","i","t","y"," ",",",",","t","i","m","e","z","o","n","e">>, <<"i","p",",","b","o","g","u","s","F","i","e","l","d">>, <<"i","p",",","c","i","t","y",",","t","i","m","e","z","o","n","e">>, <<"i","p","v","6",",","i","p",",","i","p","v","6">>,
     <<"c","o","n","s","t","r","u","c","t","o","r">>, <<"d","o","c","s","_","u","r","l",",","i","p">>, <<"\t","i","p","\n",",","c","i","t","y">>,
     <<"i","p",",","c","o","u","n","t","r","y",",","r","e","g","i","o","n",",","c","i","t","y",",","p","o","s","t","a","l","C","o","d","e",",","l","a","t","i","t","u","d","e",",","l","o","n","g","i","t","u","d","e",",","t","i","m","e","z","o","n","e">>}

FieldInputs ==
    {Undefined}
    \cup {Str(Flatten(ps)) : ps \in Strings(Vocabulary, MaxPieces)}
    \cup {Str(e) : e \in ExampleFields}

\* What the platform can know about a connection (README, "Available Fields").
FullAvailable ==
       processIPAddress(IPv4Example)
    @@ (K_country        :> Str(<<"U","S">>))
    @@ (K_region         :> Str(<<"C","a","l","i","f","o","r","n","i","a">>))
    @@ (K_asn            :> Num(15169))
    @@ (K_asOrganization :> Str(<<"G","o","o","g","l","e"," ","L","L","C">>))
    @@ (K_city           :> Str(<<"S","a","n"," ","F","r","a","n","c","i","s","c","o">>))
    @@ (K_timezone       :> Str(<<"A","m","e","r","i","c","a","/","L","o","s","_","A","n","g","e","l","e","s">>))
    @@ (K_userAgent      :> Str(<<"M","o","z","i","l","l","a","/","5",".","0",".",".",".">>))

OptionalKeys == {K_ip, K_country, K_city}

AvailInputs ==
    LET parts == {Restrict(FullAvailable, (DOMAIN FullAvailable \ OptionalKeys) \cup d) :
                     d \in SUBSET OptionalKeys}
    IN  parts \cup {Spread(o, K_city :> Null) : o \in {x \in parts : K_city \in DOMAIN x}}

Domains == {<<"i","p",".","f","r","o","n","t","e","n","d",".","i","m">>, <<"e","x","a","m","p","l","e",".","o","r","g">>}

EnvInputs ==
    {[defined |-> FALSE, DOMAIN_ |-> Undefined], [defined |-> TRUE, DOMAIN_ |-> Undefined]}
    \cup {[defined |-> TRUE, DOMAIN_ |-> Str(d)] : d \in Domains}

CfFull == Restrict(FullAvailable, {K_country, K_region, K_asn, K_asOrganization, K_city, K_timezone})

CfInputs ==
    {[defined |-> FALSE, props |-> EmptyObj],
     [defined |-> TRUE,  props |-> CfFull],
     [defined |-> TRUE,  props |-> Restrict(CfFull, {K_city, K_timezone})],
     [defined |-> TRUE,  props |-> Restrict(CfFull, {K_country, K_asn})
                                    @@ (K_docs_url :> Str(<<"h","t","t","p","s",":","/","/","e","v","i","l",".","e","x","a","m","p","l","e","/">>))]}

HandlerFields ==
    {Undefined}
    \cup {Str(x) : x \in Strings({",", " "}, MaxSepLen)}
    \cup {Str(e) : e \in ExampleFields}

RootRequests ==
    [method : {"GET"}, path : {"/"}, env : EnvInputs,
     ipHeader : {Undefined, Str(<<>>), Str(IPv4Example), Str(IPv6Example)},
     uaHeader : {Undefined, Str(<<"M","o","z","i","l","l","a","/","5",".","0",".",".",".">>)},
     cf : CfInputs, fields : HandlerFields]

OtherRequests ==
    {q \in [method : {"GET", "OPTIONS", "POST"}, path : {"/", "/docs", "/docs/", "/other"},
            env : EnvInputs, ipHeader : {Str(IPv4Example)}, uaHeader : {Undefined},
            cf : {[defined |-> FALSE, props |-> EmptyObj]},
            fields : {Undefined, Str(<<"i","p">>)}] : Route(q) /= "root"}

Requests == RootRequests \cup OtherRequests

Env(d) == [defined |-> TRUE, DOMAIN_ |-> Str(d)]
NoCf   == [defined |-> FALSE, props |-> EmptyObj]
Cf(o)  == [defined |-> TRUE, props |-> o]

Req(m, p, e, i, u, c, f) ==
    [method |-> m, path |-> p, env |-> e, ipHeader |-> i, uaHeader |-> u, cf |-> c, fields |-> f]

\* The requests handled together when interleavings are explored.
ConcurrentRequests ==
    {Req("GET", "/", Env(<<"i","p",".","f","r","o","n","t","e","n","d",".","i","m">>), Str(IPv4Example), Str(<<"M","o","z","i","l","l","a","/","5",".","0",".",".",".">>), Cf(CfFull), Undefined),
     Req("GET", "/", Env(<<"i","p",".","f","r","o","n","t","e","n","d",".","i","m">>), Str(IPv6Example), Undefined, Cf(CfFull), Str(<<"i","p",",","c","i","t","y",",","t","i","m","e","z","o","n","e">>)),
     Req("GET", "/", Env(<<"i","p",".","f","r","o","n","t","e","n","d",".","i","m">>), Undefined, Undefined, NoCf, Str(<<"i","p",",","b","o","g","u","s","F","i","e","l","d">>)),
     Req("GET", "/", [defined |-> FALSE, DOMAIN_ |-> Undefined], Str(IPv4Example), Undefined, NoCf, Undefined),
     Req("GET", "/docs", Env(<<"i","p",".","f","r","o","n","t","e","n","d",".","i","m">>), Str(IPv4Example), Undefined, NoCf, Undefined),
     Req("OPTIONS", "/", Env(<<"i","p",".","f","r","o","n","t","e","n","d",".","i","m">>), Str(IPv4Example), Undefined, NoCf, Undefined),
     Req("POST", "/", Env(<<"i","p",".","f","r","o","n","t","e","n","d",".","i","m">>), Str(IPv6Example), Undefined, NoCf, Undefined)}

---------------------------------------------------------------------------
(* Specifications *)

HarnessIdle ==
    /\ ip = <<>>
    /\ ipData = EmptyObj
    /\ fieldsParam = Undefined
    /\ availableData = EmptyObj
    /\ requestedFields = <<>>
    /\ result = EmptyObj
    /\ at = "idle"

NoRequests ==
    /\ req = <<>>
    /\ pc = <<>>
    /\ locals = <<>>
    /\ thrown = <<>>
    /\ resp = <<>>
    /\ console = <<>>

Received(ids, inputs) ==
    /\ req \in [ids -> inputs]
    /\ pc = [r \in ids |-> "received"]
    /\ locals = [r \in ids |-> NoLocals]
    /\ thrown = [r \in ids |-> NoError]
    /\ resp = [r \in ids |-> <<>>]
    /\ console = <<>>

\* One request, any input.
Init ==
    /\ HarnessIdle
    /\ Received({1}, Requests)

Next ==
    \/ \E r \in DOMAIN req : HandleRootOk(r)
    \/ \E r \in DOMAIN req : HandleRootThrow(r)
    \/ \E r \in DOMAIN req : HandleDocs(r)
    \/ \E r \in DOMAIN req : HandleOptions(r)
    \/ \E r \in DOMAIN req : NotFound(r)
    \/ \E r \in DOMAIN req : OnError(r)

Spec == Init /\ [][Next]_vars

\* Several requests in flight, handled in any order.
InitConcurrent ==
    /\ HarnessIdle
    /\ Received(1..NReq, ConcurrentRequests)

SpecConcurrent == InitConcurrent /\ [][Next]_vars

\* processIPAddress applied to one string.
InitClassify ==
    /\ ip \in IpInputs
    /\ ipData = EmptyObj
    /\ fieldsParam = Undefined
    /\ availableData = EmptyObj
    /\ requestedFields = <<>>
    /\ result = EmptyObj
    /\ at = "call"
    /\ NoRequests

CallClassify ==
    /\ at = "call"
    /\ ipData' = processIPAddress(ip)
    /\ at' = "return"
    /\ UNCHANGED <<ip, fieldsParam, availableData, requestedFields, result, handlerVars>>

SpecClassify == InitClassify /\ [][CallClassify]_vars

\* getRequestedFields applied to one fields parameter and one dictionary.
InitProject ==
    /\ ip = <<>>
    /\ ipData = EmptyObj
    /\ fieldsParam \in FieldInputs
    /\ availableData \in AvailInputs
    /\ requestedFields = <<>>
    /\ result = EmptyObj
    /\ at = "call"
    /\ NoRequests

CallProject ==
    /\ at = "call"
    /\ requestedFields' = IF Falsy(fieldsParam) THEN <<>> ELSE ParseFields(fieldsParam.s)
    /\ result' = getRequestedFields(fieldsParam, availableData)
    /\ at' = "return"
    /\ UNCHANGED <<ip, ipData, fieldsParam, availableData, handlerVars>>

SpecProject == InitProject /\ [][CallProject]_vars

---------------------------------------------------------------------------
(* Properties *)


\* The cut points of s around the occurrences of character c: 0, each
\* occurrence, and Len(s) + 1.
Cuts(s, c) == {0, Len(s) + 1} \cup {i \in 1..Len(s) : s[i] = c}

NextCut(s, c, a) == Min({b \in Cuts(s, c) : b > a})

\* s is exactly four dot-separated groups of one to three decimal digits.
FourDigitGroups(s) ==
    /\ \A i \in 1..Len(s) : s[i] \in Digits \cup {"."}
    /\ Cardinality(Cuts(s, ".")) = 5
    /\ \A a \in Cuts(s, ".") \ {Len(s) + 1} : NextCut(s, ".", a) - a - 1 \in 1..3

AsIPv4(s) == (K_ip :> Str(s)) @@ (K_ipv4 :> Str(s)) @@ (K_ipv6 :> Null) @@ (K_ipVersion :> Num(4))
AsIPv6(s) == (K_ip :> Str(s)) @@ (K_ipv4 :> Null) @@ (K_ipv6 :> Str(s)) @@ (K_ipVersion :> Num(6))

\* C1: processIPAddress returns {ip: s, ipv4: s, ipv6: null, ipVersion: 4} for
\* every string s of exactly four dot-separated groups of 1 to 3 decimal digits
\* (no range check), and {ip: s, ipv4: null, ipv6: s, ipVersion: 6} for every
\* other string, the empty string and "no IP" included.
C1_ClassifyTotal ==
    at = "return" =>
        ipData = IF FourDigitGroups(ip) THEN AsIPv4(ip) ELSE AsIPv6(ip)

C1_Witness ==
    /\ at = "return"
    /\ ip = <<"9","9","9",".","9","9","9",".","9","9","9",".","9","9","9">>
    /\ ipData = AsIPv4(ip)

NineKeys ==
    {<<"i","p">>, <<"i","p","v","4">>, <<"i","p","v","6">>, <<"i","p","V","e","r","s","i","o","n">>, <<"c","o","u","n","t","r","y">>, <<"r","e","g","i","o","n">>, <<"a","s","n">>,
     <<"a","s","O","r","g","a","n","i","z","a","t","i","o","n">>, <<"u","s","e","r","A","g","e","n","t">>}

\* The nine keys, each with the dictionary's value or undefined when missing.
NineKeyDocument(doc, available) ==
    /\ DOMAIN doc = NineKeys
    /\ \A k \in NineKeys :
          doc[k] = IF k \in DOMAIN available THEN available[k] ELSE Undefined

C3_SelectiveIffOwn ==
    (at = "return" /\ ~(fieldsParam = Undefined \/ fieldsParam = Str(<<>>))) =>
        /\ DOMAIN result = Range(requestedFields) \cap DOMAIN availableData
        /\ \A k \in DOMAIN result : result[k] = availableData[k]

C3_Witness ==
    /\ at = "return"
    /\ fieldsParam = Str(<<"i","p","v","6",",","i","p",",","i","p","v","6">>)
    /\ requestedFields = <<K_ipv6, K_ip, K_ipv6>>
    /\ K_ip \notin DOMAIN availableData
    /\ result = (K_ipv6 :> Null)

\* The piece of s that starts after cut a, without its surrounding white space.
Core(s, a) ==
    LET b    == NextCut(s, ",", a)
        keep == {i \in (a + 1)..(b - 1) : s[i] \notin {" ", "\t", "\n", "\r"}}
    IN  IF keep = {} THEN <<>> ELSE SubSeq(s, Min(keep), Max(keep))

\* The non-empty cores of the pieces that start at the cuts in `starts`, in order.
RECURSIVE Names(_, _)
Names(s, starts) ==
    IF starts = {}
    THEN <<>>
    ELSE LET a == Min(starts)
         IN  (IF Core(s, a) = <<>> THEN <<>> ELSE <<Core(s, a)>>) \o Names(s, starts \ {a})

\* C4: a present, non-empty fields string is split on ',', each piece loses its
\* surrounding white space, the pieces then empty are dropped and the rest keep
\* their order and their duplicates; "ip, city ,,timezone" gives ip, city,
\* timezone.
C4_ParseFields ==
    (at = "return" /\ ~(fieldsParam = Undefined \/ fieldsParam = Str(<<>>))) =>
        /\ requestedFields = Names(fieldsParam.s, Cuts(fieldsParam.s, ",") \ {Len(fieldsParam.s) + 1})
        /\ fieldsParam = Str(<<"i","p",","," ","c","i","t","y"," ",",",",","t","i","m","e","z","o","n","e">>) =>
              requestedFields = <<<<"i","p">>, <<"c","i","t","y">>, <<"t","i","m","e","z","o","n","e">>>>

C4_Witness ==
    /\ at = "return"
    /\ fieldsParam = Str(<<"i","p",","," ","c","i","t","y"," ",",",",","t","i","m","e","z","o","n","e">>)
    /\ requestedFields = <<<<"i","p">>, <<"c","i","t","y">>, <<"t","i","m","e","z","o","n","e">>>>

\* Request r was GET / and its handling ended without an exception.
RootAnswered(r) ==
    /\ pc[r] = "done"
    /\ req[r].method = "GET"
    /\ req[r].path = "/"
    /\ thrown[r] = NoError
    /\ Len(resp[r]) = 1

Selective(r) == ~(req[r].fields = Undefined \/ req[r].fields = Str(<<>>))

ConfiguredDocsUrl(r, body) ==
    /\ <<"d","o","c","s","_","u","r","l">> \in DOMAIN body
    /\ \A d \in Domains :
          req[r].env.DOMAIN_ = Str(d) => body[<<"d","o","c","s","_","u","r","l">>] = Str(<<"h","t","t","p","s",":","/","/">> \o d \o <<"/","d","o","c","s">>)

NoLeak(r, body) ==
    /\ Selective(r) =>
          \A k \in NineKeys : k \in DOMAIN body => k \in Range(locals[r].requestedFields)
    /\ req[r].fields = Str(<<"i","p",",","b","o","g","u","s","F","i","e","l","d">>) => DOMAIN body = {<<"i","p">>, <<"d","o","c","s","_","u","r","l">>}

\* C5 as stated: the 200 JSON body of GET / is exactly the projector's document
\* plus docs_url = https://<DOMAIN>/docs, a projected docs_url never survives,
\* and in selective mode no default field that was not requested appears.
C5_BodyIsDocumentPlusDocsUrl ==
    \A r \in DOMAIN req : RootAnswered(r) =>
        LET doc  == locals[r].responseData
            sent == resp[r][1]
        IN  /\ sent.status = 200
            /\ sent.body.k = "json"
            /\ DOMAIN sent.body.o = DOMAIN doc \cup {<<"d","o","c","s","_","u","r","l">>}
            /\ \A k \in DOMAIN doc \ {<<"d","o","c","s","_","u","r","l">>} : sent.body.o[k] = doc[k]
            /\ ConfiguredDocsUrl(r, sent.body.o)
            /\ NoLeak(r, sent.body.o)

\* C5 amended: the 200 JSON body of GET / is the projector's document without
\* the keys whose value is undefined (serialisation leaves them out), plus
\* docs_url = https://<DOMAIN>/docs; a projected docs_url never survives, and
\* in selective mode no default field that was not requested appears.
C5_BodyIsDefinedDocumentPlusDocsUrl ==
    \A r \in DOMAIN req : RootAnswered(r) =>
        LET doc  == locals[r].responseData
            sent == resp[r][1]
        IN  /\ sent.status = 200
            /\ sent.body.k = "json"
            /\ DOMAIN sent.body.o = {k \in DOMAIN doc : doc[k] /= Undefined} \cup {<<"d","o","c","s","_","u","r","l">>}
            /\ \A k \in DOMAIN sent.body.o \ {<<"d","o","c","s","_","u","r","l">>} : sent.body.o[k] = doc[k]
            /\ ConfiguredDocsUrl(r, sent.body.o)
            /\ NoLeak(r, sent.body.o)

C5_Witness ==
    \E r \in DOMAIN req :
        /\ RootAnswered(r)
        /\ req[r].fields = Str(<<"d","o","c","s","_","u","r","l",",","i","p">>)
        /\ <<"d","o","c","s","_","u","r","l">> \in DOMAIN locals[r].responseData
        /\ req[r].env.DOMAIN_ = Str(<<"i","p",".","f","r","o","n","t","e","n","d",".","i","m">>)
        /\ resp[r][1].body.o[<<"d","o","c","s","_","u","r","l">>] = Str(<<"h","t","t","p","s",":","/","/","i","p",".","f","r","o","n","t","e","n","d",".","i","m","/","d","o","c","s">>)
        /\ DOMAIN resp[r][1].body.o = {<<"i","p">>, <<"d","o","c","s","_","u","r","l">>}

CorsOnly ==
       ("Access-Control-Allow-Credentials" :> "true")
    @@ ("Access-Control-Allow-Methods"     :> "GET, OPTIONS")
    @@ ("Access-Control-Allow-Headers"     :> "office")

Unmatched(q) ==
    \/ q.method \notin {"GET", "OPTIONS"}
    \/ q.method = "GET" /\ q.path \notin {"/", "/docs"}

Is404(x) == x.status = 404 /\ x.body = [k |-> "text", s |-> <<"N","o","t"," ","F","o","u","n","d">>]
Is500(x) == x.status = 500 /\ x.body = [k |-> "text", s |-> <<"F","a","i","l","e","d"," ","t","o"," ","r","e","t","r","i","e","v","e"," ","i","p">>]

\* A 200 whose JSON body is whole: the documentation, or the projection's
\* defined keys with docs_url.
FullSuccess(r, x) ==
    /\ x.status = 200
    /\ x.body.k = "json"
    /\ req[r].path = "/docs" =>
          DOMAIN x.body.o = {<<"t","i","t","l","e">>, <<"v","e","r","s","i","o","n">>, <<"d","e","s","c","r","i","p","t","i","o","n">>, <<"e","n","d","p","o","i","n","t","s">>,
                             <<"a","v","a","i","l","a","b","l","e","F","i","e","l","d","s">>, <<"e","x","a","m","p","l","e","s">>, <<"n","o","t","e","s">>}
    /\ req[r].path = "/" =>
          /\ <<"d","o","c","s","_","u","r","l">> \in DOMAIN x.body.o
          /\ \A k \in DOMAIN locals[r].responseData :
                locals[r].responseData[k] /= Undefined => k \in DOMAIN x.body.o

PreflightSuccess(r, x) ==
    req[r].method = "OPTIONS" /\ x.status = 204 /\ x.body = [k |-> "none"]

\* Nothing is sent before handling ends, one response after; an exception
\* gives the generic 500.
OneResponse(r) ==
    /\ pc[r] /= "done" => resp[r] = <<>>
    /\ pc[r] = "done" => Len(resp[r]) = 1
    /\ (pc[r] = "done" /\ thrown[r] /= NoError) => Is500(resp[r][1])
    /\ (pc[r] = "done" /\ thrown[r] = NoError) => ~Is500(resp[r][1])

C8_EmptyFieldsIsDefault ==
    \A r \in DOMAIN req : (RootAnswered(r) /\ req[r].fields = Str(<<>>)) =>
        /\ NineKeyDocument(locals[r].responseData, locals[r].availableData)
        /\ resp[r] = <<RootResponse(RootLocals([req[r] EXCEPT !.fields = Undefined]))>>

C8_Witness ==
    \E r \in DOMAIN req :
        /\ RootAnswered(r)
        /\ req[r].fields = Str(<<>>)
        /\ req[r].cf.defined
        /\ DOMAIN locals[r].responseData = NineKeys
        /\ <<"c","i","t","y">> \in DOMAIN locals[r].availableData

SeparatorsOnly(v) ==
    /\ v /= Undefined
    /\ Len(v.s) > 0
    /\ \A i \in 1..Len(v.s) : v.s[i] \in {",", " ", "\t", "\n", "\r"}

\* C10: a non-empty fields parameter made of commas and white space only is
\* not taken for a missing one: it names no field, the projection is empty and
\* the body of GET / holds docs_url alone, whereas the empty string gives the
\* nine default keys.
C10_SeparatorsOnlyIsEmptySelection ==
    \A r \in DOMAIN req : RootAnswered(r) =>
        /\ SeparatorsOnly(req[r].fields) =>
              /\ locals[r].requestedFields = <<>>
              /\ locals[r].responseData = <<>>
              /\ DOMAIN resp[r][1].body.o = {<<"d","o","c","s","_","u","r","l">>}
        /\ req[r].fields = Str(<<>>) => DOMAIN locals[r].responseData = NineKeys

C10_Witness ==
    \E r \in DOMAIN req :
        /\ RootAnswered(r)
        /\ req[r].fields = Str(<<" ",","," ",",">>)
        /\ req[r].cf.defined
        /\ DOMAIN resp[r][1].body.o = {<<"d","o","c","s","_","u","r","l">>}

\* The response to q when it is the only request.
Alone(q) ==
    IF q.method = "OPTIONS" THEN OptionsResponse
    ELSE IF q.method = "GET" /\ q.path = "/docs" THEN DocsResponse
    ELSE IF q.method = "GET" /\ q.path = "/"
         THEN IF q.env.defined THEN RootResponse(RootLocals(q)) ELSE ErrorResponse(EnvError)
         ELSE NotFoundResponse

\* C9: whatever the order in which concurrent requests are handled, each gets
\* the response it gets alone, requests with equal inputs get equal responses,
\* and the only shared state, the console, holds one entry per failed request.
C9_RequestsIndependent ==
    /\ \A r \in DOMAIN req : pc[r] = "done" => resp[r] = <<Alone(req[r])>>
    /\ \A r1, r2 \in DOMAIN req :
          (pc[r1] = "done" /\ pc[r2] = "done" /\ req[r1] = req[r2]) => resp[r1] = resp[r2]
    /\ Len(console) = Cardinality({r \in DOMAIN req : pc[r] = "done" /\ thrown[r] /= NoError})

C9_Witness ==
    \E r1, r2 \in DOMAIN req :
        /\ r1 < r2
        /\ pc[r1] = "done" /\ pc[r2] = "done"
        /\ req[r1].path = "/" /\ req[r2].path = "/"
        /\ req[r1].method = "GET" /\ req[r2].method = "GET"
        /\ thrown[r1] = NoError /\ thrown[r2] = NoError
        /\ req[r1].fields = Undefined
        /\ req[r2].fields = Str(<<"i","p",",","c","i","t","y",",","t","i","m","e","z","o","n","e">>)
        /\ resp[r1] /= resp[r2]

============================================================================
